---- MODULE Spec2Model ----
(***************************************************************************)
(* The recommendation endpoint of the mixing-desk app (api/recommend.js):  *)
(* one request handled from method check to response.                      *)
(*                                                                         *)
(* JavaScript values are records [t, n, d, s]:                             *)
(*   t = "undef" | "null" | "bool" | "num" | "inf" | "str" | "array" |     *)
(*       "obj"; a finite number is n/d; a boolean has n = 1 or 0; an       *)
(*   overflowing JSON number (1e999) is "inf" with n = 1 or -1; a string   *)
(*   is the sequence s of its characters; an array has one-character       *)
(*   elements, kept in s.                                                  *)
(***************************************************************************)
EXTENDS Integers, Sequences, FiniteSets, TLC

(***************************************************************************)
(* Values                                                                  *)
(***************************************************************************)
Undef == [t |-> "undef", n |-> 0, d |-> 1, s |-> <<>>]
Null == [t |-> "null", n |-> 0, d |-> 1, s |-> <<>>]
Bool(b) == [t |-> "bool", n |-> IF b THEN 1 ELSE 0, d |-> 1, s |-> <<>>]
Num(n, d) == [t |-> "num", n |-> n, d |-> d, s |-> <<>>]
Inf(sign) == [t |-> "inf", n |-> sign, d |-> 1, s |-> <<>>]
Str(s) == [t |-> "str", n |-> 0, d |-> 1, s |-> s]
Arr(s) == [t |-> "array", n |-> 0, d |-> 1, s |-> s]
Obj == [t |-> "obj", n |-> 0, d |-> 1, s |-> <<>>]

Min(a, b) == IF a < b THEN a ELSE b
Max(a, b) == IF a > b THEN a ELSE b

\* JavaScript truthiness: what `x || y` and `!x` look at.
Truthy(v) ==
  CASE v.t \in {"undef", "null"} -> FALSE
    [] v.t = "bool" -> v.n = 1
    [] v.t = "num" -> v.n # 0
    [] v.t = "str" -> v.s # <<>>
    [] OTHER -> TRUE

(***************************************************************************)
(* Number(n): the numeric coercion clamp10 applies to a raw level.         *)
(* The result is [k, n, d]: k = "fin" (the number n/d), "inf" (n is the    *)
(* sign) or "nan".  Strings are read as decimal literals: sign, digits,    *)
(* one optional point; exponents and hex literals are outside the          *)
(* alphabet the model draws strings from.                                  *)
(***************************************************************************)
Digits == <<"0", "1", "2", "3", "4", "5", "6", "7", "8", "9">>
IsDigit(c) == \E i \in 1..10 : Digits[i] = c
DigitVal(c) == (CHOOSE i \in 1..10 : Digits[i] = c) - 1
IsSpace(c) == c \in {" ", "\n", "\t"}

RECURSIVE TrimStart(_)
TrimStart(s) ==
  IF s # <<>> /\ IsSpace(Head(s)) THEN TrimStart(Tail(s)) ELSE s

RECURSIVE TrimEnd(_)
TrimEnd(s) ==
  IF s # <<>> /\ IsSpace(s[Len(s)]) THEN TrimEnd(SubSeq(s, 1, Len(s) - 1)) ELSE s

\* String.prototype.trim
Trim(s) == TrimEnd(TrimStart(s))

NaN == [k |-> "nan", n |-> 0, d |-> 1]
Fin(n, d) == [k |-> "fin", n |-> n, d |-> d]
Infinite(sign) == [k |-> "inf", n |-> sign, d |-> 1]

InfinityWord == <<"I", "n", "f", "i", "n", "i", "t", "y">>

\* The unsigned decimal literal s[i..hi], read from the left: digits with at
\* most one point and at least one digit; n/d is the number read so far.
RECURSIVE ScanDecimal(_, _, _, _, _, _, _)
ScanDecimal(s, i, hi, point, digits, n, d) ==
  IF i > hi THEN IF digits = 0 THEN NaN ELSE Fin(n, d)
  ELSE IF s[i] = "." THEN IF point THEN NaN ELSE ScanDecimal(s, i + 1, hi, TRUE, digits, n, d)
  ELSE IF IsDigit(s[i])
  THEN ScanDecimal(s, i + 1, hi, point, digits + 1, 10 * n + DigitVal(s[i]),
                   IF point THEN 10 * d ELSE d)
  ELSE NaN

UnsignedToNumber(s, lo, hi) ==
  IF SubSeq(s, lo, hi) = InfinityWord THEN Infinite(1)
  ELSE ScanDecimal(s, lo, hi, FALSE, 0, 0, 1)

Negate(x) == [x EXCEPT !.n = -x.n]

\* The first and the last index of s that hold no white space (Len(s) + 1 and
\* 0 when there is none): what trim() leaves.
FirstSolid(s) ==
  IF \A i \in 1..Len(s) : IsSpace(s[i]) THEN Len(s) + 1
  ELSE CHOOSE i \in 1..Len(s) : ~IsSpace(s[i]) /\ \A j \in 1..(i - 1) : IsSpace(s[j])
LastSolid(s) ==
  IF \A i \in 1..Len(s) : IsSpace(s[i]) THEN 0
  ELSE CHOOSE i \in 1..Len(s) : ~IsSpace(s[i]) /\ \A j \in (i + 1)..Len(s) : IsSpace(s[j])

\* StringToNumber: blank is 0, then an optionally signed literal.
StringToNumber(s) ==
  IF FirstSolid(s) > LastSolid(s) THEN Fin(0, 1)
  ELSE IF s[FirstSolid(s)] = "-" THEN Negate(UnsignedToNumber(s, FirstSolid(s) + 1, LastSolid(s)))
  ELSE IF s[FirstSolid(s)] = "+" THEN UnsignedToNumber(s, FirstSolid(s) + 1, LastSolid(s))
  ELSE UnsignedToNumber(s, FirstSolid(s), LastSolid(s))

RECURSIVE Join(_)
\* Array.prototype.join(",") of one-character elements
Join(s) ==
  IF s = <<>> THEN <<>>
  ELSE IF Len(s) = 1 THEN <<s[1]>>
  ELSE <<s[1], ",">> \o Join(Tail(s))

ToNumber(v) ==
  CASE v.t = "undef" -> NaN
    [] v.t = "null" -> Fin(0, 1)
    [] v.t = "bool" -> Fin(v.n, 1)
    [] v.t = "num" -> Fin(v.n, v.d)
    [] v.t = "inf" -> Infinite(v.n)
    [] v.t = "str" -> StringToNumber(v.s)
    [] v.t = "array" -> StringToNumber(Join(v.s))
    [] OTHER -> NaN

\* Math.floor in the place of Math.round
MathFloor(x) ==
  IF x.k = "fin" THEN Fin(x.n \div x.d, 1) ELSE x

\* Math.round: the nearest integer, a tie going up; NaN and the infinities stay.
MathRound(x) ==
  IF x.k = "fin" THEN Fin((2 * x.n + x.d) \div (2 * x.d), 1) ELSE x

\* clamp10 without its Math.min
clamp10NoUpper(v) ==
  LET r == MathRound(ToNumber(v))
  IN  IF r.k = "fin" THEN Max(0, r.n) ELSE 5

\* clamp10 whose default is 0
clamp10DefaultZero(v) ==
  LET r == MathRound(ToNumber(v))
  IN  IF r.k = "fin" THEN Max(0, Min(10, r.n)) ELSE 0

clamp10(v) ==
  LET r == MathRound(ToNumber(v))
  IN  IF r.k = "fin" THEN Max(0, Min(10, r.n)) ELSE 5

(***************************************************************************)
(* Strings of the requests and replies                                     *)
(***************************************************************************)
\* Number.prototype.toString of a non-negative integer
RECURSIVE DigitsOf(_)
DigitsOf(n) ==
  IF n < 10 THEN <<Digits[n + 1]>> ELSE DigitsOf(n \div 10) \o <<Digits[(n % 10) + 1]>>

\* x.toString() of the values a request body can carry
toStringOf(v) ==
  CASE v.t = "str" -> v.s
    [] v.t = "bool" -> IF v.n = 1 THEN <<"t", "r", "u", "e">> ELSE <<"f", "a", "l", "s", "e">>
    [] v.t = "num" -> DigitsOf(v.n)
    [] v.t = "array" -> Join(v.s)
    [] OTHER -> <<"[", "o", "b", "j", "e", "c", "t", "]">>

\* s.slice(0, k)
Slice(s, k) == SubSeq(s, 1, Min(k, Len(s)))

\* A text of n characters, no two neighbours alike.
Text(n) == [i \in 1..n |-> Digits[(i % 10) + 1]]

SnippetCap == 200
KbCap == 12000

traits ==
  <<"ruthlessness", "fearlessness", "impulsivity", "selfConfidence", "focus", "coolness",
    "toughness", "charm", "charisma", "reducedEmpathy", "lackConscience">>
TraitKeys == {traits[i] : i \in 1..Len(traits)}

(***************************************************************************)
(* toDirectPdfUrl.  A URL string is a record: k = "empty" (the empty       *)
(* string), "falsy" (null, undefined, 0: no string at all), "bad" (a       *)
(* string new URL() rejects) or "url" with what new URL() reads from it:   *)
(* the hostname as its pieces (labels, parts of labels and the dots        *)
(* between them), the path segments and the query pairs <<key, value>>.    *)
(* canon tells whether the string is the serialization of that URL: the    *)
(* string "HTTPS://Example.com" is not, u.toString() always is.            *)
(***************************************************************************)
EmptyUrl == [k |-> "empty", canon |-> TRUE, host |-> <<>>, path |-> <<>>, query |-> <<>>]
FalsyUrl == [k |-> "falsy", canon |-> TRUE, host |-> <<>>, path |-> <<>>, query |-> <<>>]
BadUrl == [k |-> "bad", canon |-> FALSE, host |-> <<>>, path |-> <<>>, query |-> <<>>]
Url(host, path, query) ==
  [k |-> "url", canon |-> TRUE, host |-> host, path |-> path, query |-> query]
\* The same URL written another way (upper-case scheme or host, default port).
Respelled(u) == [u EXCEPT !.canon = FALSE]
\* What leaves toDirectPdfUrl when an exception is not caught.
Threw == [k |-> "threw", canon |-> FALSE, host |-> <<>>, path |-> <<>>, query |-> <<>>]

DriveHost == <<"drive", ".", "google", ".", "com">>
DropboxHost == <<"dropbox", ".", "com">>
OneDriveShort == <<"1drv", ".", "ms">>
OneDriveLive == <<"onedrive", ".", "live", ".", "com">>

\* hostname.includes(name): the pieces of name occur in a row in the host
Includes(host, name) ==
  \E i \in 0..(Len(host) - Len(name)) : SubSeq(host, i + 1, i + Len(name)) = name

\* pathname.match(/\/d\/([^/]+)/): the segment after the first "d" that has one
IdMatch(path) ==
  LET hits == {i \in 1..(Len(path) - 1) : path[i] = "d" /\ path[i + 1] # ""}
  IN  IF hits = {} THEN "" ELSE path[(CHOOSE i \in hits : \A j \in hits : i <= j) + 1]

HasParam(query, key) == \E i \in 1..Len(query) : query[i][1] = key

\* searchParams.set(key, value): the first pair of that key takes the value, the
\* later ones go; a new pair is appended when there is none.
RECURSIVE DropKey(_, _)
DropKey(query, key) ==
  IF query = <<>> THEN <<>>
  ELSE IF Head(query)[1] = key THEN DropKey(Tail(query), key)
  ELSE <<Head(query)>> \o DropKey(Tail(query), key)

SetParam(query, key, value) ==
  IF HasParam(query, key)
  THEN LET i == CHOOSE j \in 1..Len(query) :
                  query[j][1] = key /\ \A h \in 1..(j - 1) : query[h][1] # key
       IN  SubSeq(query, 1, i - 1) \o <<(<<key, value>>)>>
             \o DropKey(SubSeq(query, i + 1, Len(query)), key)
  ELSE Append(query, <<key, value>>)

\* new URL(url): throws on a string that is no URL
NewURL(url) == [threw |-> url.k # "url", u |-> url]
\* u.toString(): the serialization of u
UrlToString(u) == [u EXCEPT !.canon = TRUE]
\* `https://drive.google.com/uc?export=download&id=${id}`
DriveDownload(id) ==
  Url(DriveHost, <<"uc">>, <<(<<"export", "download">>), (<<"id", id>>)>>)

\* toDirectPdfUrl without its try and catch
toDirectPdfUrlNoCatch(url) ==
  IF url.k \in {"empty", "falsy"} THEN EmptyUrl
  ELSE IF NewURL(url).threw THEN Threw
  ELSE IF Includes(url.host, DriveHost) /\ IdMatch(url.path) # ""
  THEN DriveDownload(IdMatch(url.path))
  ELSE IF Includes(url.host, DropboxHost)
  THEN UrlToString([url EXCEPT !.query = SetParam(url.query, "dl", "1")])
  ELSE IF Includes(url.host, OneDriveShort) \/ Includes(url.host, OneDriveLive)
  THEN IF HasParam(url.query, "download") THEN UrlToString(url)
       ELSE UrlToString([url EXCEPT !.query = SetParam(url.query, "download", "1")])
  ELSE url

\* toDirectPdfUrl whose Dropbox rule appends dl=1 and keeps what is there
toDirectPdfUrlAppends(url) ==
  IF url.k \in {"empty", "falsy"} THEN EmptyUrl
  ELSE IF NewURL(url).threw THEN url
  ELSE IF Includes(url.host, DriveHost) /\ IdMatch(url.path) # ""
  THEN DriveDownload(IdMatch(url.path))
  ELSE IF Includes(url.host, DropboxHost)
  THEN UrlToString([url EXCEPT !.query = Append(url.query, <<"dl", "1">>)])
  ELSE IF Includes(url.host, OneDriveShort) \/ Includes(url.host, OneDriveLive)
  THEN IF HasParam(url.query, "download") THEN UrlToString(url)
       ELSE UrlToString([url EXCEPT !.query = SetParam(url.query, "download", "1")])
  ELSE url

toDirectPdfUrl(url) ==
  IF url.k \in {"empty", "falsy"} THEN EmptyUrl
  ELSE IF NewURL(url).threw THEN url
  ELSE IF Includes(url.host, DriveHost) /\ IdMatch(url.path) # ""
  THEN DriveDownload(IdMatch(url.path))
  ELSE IF Includes(url.host, DropboxHost)
  THEN UrlToString([url EXCEPT !.query = SetParam(url.query, "dl", "1")])
  ELSE IF Includes(url.host, OneDriveShort) \/ Includes(url.host, OneDriveLive)
  THEN IF HasParam(url.query, "download") THEN UrlToString(url)
       ELSE UrlToString([url EXCEPT !.query = SetParam(url.query, "download", "1")])
  ELSE url

(***************************************************************************)
(* fetchPdfText: the text of the document, normalized and capped.          *)
(***************************************************************************)
\* The indices of s, and the characters of s at the indices kept, in their order.
Indices(s) == [i \in 1..Len(s) |-> i]
At(s, kept) == IF kept = <<>> THEN <<>> ELSE [n \in 1..Len(kept) |-> s[kept[n]]]

\* s[i] is white space with a "\n" further on in the same run of white space:
\* /\s+\n/ takes the run from its start up to its last "\n".
BeforeNewline(s, i) ==
  /\ IsSpace(s[i])
  /\ \E j \in (i + 1)..Len(s) : s[j] = "\n" /\ \A h \in i..j : IsSpace(s[h])

\* text.replace(/\s+\n/g, "\n"): of each match its last "\n" stays.
StripBeforeNewline(s) == At(s, SelectSeq(Indices(s), LAMBDA i : ~BeforeNewline(s, i)))

\* text.replace(/\n{3,}/g, "\n\n"): of each run the first two "\n" stay.
CollapseNewlines(s) ==
  At(s, SelectSeq(Indices(s),
                  LAMBDA i : ~(i >= 3 /\ s[i] = "\n" /\ s[i - 1] = "\n" /\ s[i - 2] = "\n")))

NormalizeText(text) == Slice(CollapseNewlines(StripBeforeNewline(text)), KbCap)

(***************************************************************************)
(* The inputs: the request, the environment, and what the collaborators    *)
(* (the document host, the PDF parser, the generation service) answer.     *)
(***************************************************************************)
\* Length of the long texts: one more than the snippet keeps.
LongLen == 201
\* How many of the trait keys the model's `levels` object may carry.
MaxSupplied == 1

Methods == {"GET", "POST"}
ApiKeys == {Undef, Str(<<>>), Str(<<"s", "k">>)}

NoUrl == [t |-> "undef", url |-> EmptyUrl]
UrlStr(u) == [t |-> "str", url |-> u]
DriveShare == Url(DriveHost, <<"file", "d", "ABC123", "view">>, <<(<<"usp", "sharing">>)>>)
PdfUrls == {NoUrl, UrlStr(EmptyUrl), UrlStr(BadUrl), UrlStr(DriveShare)}

Scenarios ==
  {Undef, Null, Str(<<>>), Str(<<"o", "k">>), Str(<<" ", "o", "k", " ">>),
   Str(<<" ", " ", " ">>), Str(<<"o", "k", "!">>), Bool(TRUE)}

\* A parsed body: an object with its two fields, or a JSON value that is no object.
BodyObj(sc, url) == [t |-> "obj", scenario |-> sc, pdfUrl |-> url]
EmptyObj == BodyObj(Undef, NoUrl)
BodyNull == [t |-> "null", scenario |-> Undef, pdfUrl |-> NoUrl]

\* req: the body already parsed by the platform (req.body), or a stream that
\* yields a JSON text, nothing, a malformed text, or an error.
ReqBodies ==
  {[kind |-> "parsed", val |-> BodyObj(sc, u)] : sc \in Scenarios, u \in PdfUrls}
    \cup {[kind |-> k, val |-> EmptyObj] : k \in {"empty", "malformed", "throws"}}
    \cup {[kind |-> "raw", val |-> b] : b \in {BodyNull, BodyObj(Str(<<"o", "k", "!">>), NoUrl)}}

\* What fetching and parsing the document gives.
PdfTexts == {<<>>, <<"a", " ", "\n", "\n", "\n", "b">>}
PdfOutcomes(url) ==
  IF url.k = "bad" THEN {[k |-> "neterr", text |-> <<>>]}
  ELSE {[k |-> f, text |-> <<>>] : f \in {"neterr", "status", "badpdf"}}
         \cup {[k |-> "ok", text |-> t] : t \in PdfTexts}
NoPdf == [k |-> "none", text |-> <<>>]

\* The raw values a key of the model's `levels` can have.
RawValues ==
  {Null, Bool(TRUE), Bool(FALSE), Obj, Inf(1),
   Str(<<>>), Str(<<"a", "b", "c">>), Str(<<"3">>), Str(<<" ", "7", ".", "5", " ">>),
   Arr(<<>>), Arr(<<"1", "2">>),
   Num(117, 10), Num(-4, 1), Num(25, 10), Num(7, 1)}

\* The model's `levels`: a value with, when it is an object, its key/value map.
LevelsVal(v, m) == [t |-> v.t, n |-> v.n, d |-> v.d, s |-> v.s, map |-> m]
SuppliedKeys == {traits[i] : i \in 1..MaxSupplied}
\* A key outside the vocabulary, as the model may add one: unknownKey: 9.
WithUnknownKey(m) == [k \in DOMAIN m \cup {"unknownKey"} |-> IF k \in DOMAIN m THEN m[k] ELSE Num(9, 1)]
TraitMaps == UNION {[K -> RawValues] : K \in SUBSET SuppliedKeys}
LevelMaps == TraitMaps \cup {WithUnknownKey(m) : m \in TraitMaps}
LevelsValues ==
  {LevelsVal(Obj, m) : m \in LevelMaps}
    \cup {LevelsVal(v, <<>>) : v \in {Undef, Null, Num(7, 1), Str(<<"h", "i">>), Arr(<<"7">>)}}

\* The model's output: the value `content` is or parses to.
ModelOut(t, lv, ra, su) == [t |-> t, levels |-> lv, rationales |-> ra, summary |-> su]
NoLevels == LevelsVal(Undef, <<>>)
ModelOuts ==
  {ModelOut("obj", lv, Obj, Str(<<"p", "l", "a", "n">>)) : lv \in LevelsValues}
    \cup {ModelOut("obj", NoLevels, ra, su) :
            ra \in {Undef, Null, Str(<<"x">>)}, su \in {Undef, Str(<<>>), Num(7, 1)}}
    \cup {ModelOut(t, NoLevels, Undef, Undef) : t \in {"null", "num", "str"}}

\* message.content: absent, a string (that parses to val, or does not parse), or
\* structured data.
Content(k, chars, val) == [k |-> k, chars |-> chars, val |-> val]
NoContent == Content("undef", <<>>, ModelOut("undef", NoLevels, Undef, Undef))
Contents ==
  {Content("json", <<"{", "}">>, m) : m \in ModelOuts}
    \cup {Content("text", c, NoContent.val) : c \in {<<"o", "o", "p", "s">>, Text(SnippetCap), Text(LongLen)}}
    \cup {Content("data", <<>>, ModelOut("obj", LevelsVal(Obj, <<>>), Obj, Str(<<"p">>))),
          Content("data", <<>>, ModelOut("null", NoLevels, Undef, Undef)),
          NoContent}

\* The parsed body of the generation reply.
Data(t, msg, content) == [t |-> t, errMsg |-> msg, content |-> content]
ErrorMessages == {Undef, Str(<<>>), Str(<<"r", "a", "t", "e">>), Num(42, 1), Obj}
Statuses == {200, 400, 500}
IsOk(status) == status >= 200 /\ status <= 299

\* The generation reply: status, and a body that is a JSON text (of data) or not.
Reply(status, isJson, raw, data) ==
  [status |-> status, isJson |-> isJson, raw |-> raw, data |-> data, bodyUsed |-> FALSE]
NoData == Data("null", Undef, NoContent)
NoReply == Reply(0, FALSE, <<>>, NoData)
Replies ==
  {Reply(st, FALSE, raw, NoData) :
     st \in Statuses, raw \in {<<>>, <<"<", "h", "t", "m", "l", ">">>, Text(LongLen)}}
    \cup {Reply(st, TRUE, <<>>, Data("obj", msg, NoContent)) : st \in Statuses, msg \in ErrorMessages}
    \cup {Reply(st, TRUE, <<>>, NoData) : st \in Statuses}
    \cup {Reply(200, TRUE, <<>>, Data("obj", Undef, c)) : c \in Contents}

\* The messages of the errors the collaborators throw.
ThrownMessages == {Str(<<>>), Str(<<"f", "a", "i", "l">>)}

(***************************************************************************)
(* The handler                                                             *)
(***************************************************************************)
VARIABLES
  method,     \* req.method
  apiKey,     \* process.env.OPENAI_API_KEY
  reqBody,    \* the request's body, as the platform hands it over
  pc,         \* where the handler is
  log,        \* what the handler has done so far, in order
  body,       \* what readJson returned
  scenario,   \* the scenario string
  pdfUrl,     \* the normalized document URL
  pdf,        \* what the document fetch gave
  kb,         \* the grounding text
  user,       \* the user prompt: the scenario and the excerpt
  r,          \* the generation reply
  pending,    \* the arguments of the sendJson call under way
  responses,  \* the responses written to res
  escaped     \* an exception left the handler

vars ==
  <<method, apiKey, reqBody, pc, log, body, scenario, pdfUrl, pdf, kb, user, r, pending,
    responses, escaped>>

\* A response body: the keys it has and their values.
NoLevelsOut == [k \in {} |-> 0]
ErrorBody(msg) ==
  [keys |-> {"error"}, error |-> msg, snippet |-> Undef, levels |-> NoLevelsOut,
   rationales |-> Undef, summary |-> Undef]
SnippetBody(msg, snippet) ==
  [keys |-> {"error", "snippet"}, error |-> msg, snippet |-> snippet, levels |-> NoLevelsOut,
   rationales |-> Undef, summary |-> Undef]
ResultBody(levels, rationales, summary) ==
  [keys |-> {"levels", "rationales", "summary"}, error |-> Undef, snippet |-> Undef,
   levels |-> levels, rationales |-> rationales, summary |-> summary]

Call(code, payload) == [code |-> code, body |-> payload]
NoCall == Call(0, ErrorBody(Undef))

UsePost ==
  Str(<<"U", "s", "e", " ", "P", "O", "S", "T">>)
MissingKey ==
  Str(<<"M", "i", "s", "s", "i", "n", "g", " ", "O", "P", "E", "N", "A", "I", "_", "A", "P", "I", "_", "K", "E", "Y", " ", "i", "n", " ", "V", "e", "r", "c", "e", "l", " ", "e", "n", "v">>)
BadScenario ==
  Str(<<"M", "i", "s", "s", "i", "n", "g", " ", "o", "r", " ", "t", "o", "o", "-", "s", "h", "o", "r", "t", " ", "'", "s", "c", "e", "n", "a", "r", "i", "o", "'">>)
NonJson ==
  Str(<<"U", "p", "s", "t", "r", "e", "a", "m", " ", "r", "e", "t", "u", "r", "n", "e", "d", " ", "n", "o", "n", "-", "J", "S", "O", "N">>)
ApiError ==
  Str(<<"O", "p", "e", "n", "A", "I", " ", "A", "P", "I", " ", "e", "r", "r", "o", "r">>)
InvalidModelJson ==
  Str(<<"M", "o", "d", "e", "l", " ", "d", "i", "d", " ", "n", "o", "t", " ", "r", "e", "t", "u", "r", "n", " ", "v", "a", "l", "i", "d", " ", "J", "S", "O", "N">>)
ServerError ==
  Str(<<"S", "e", "r", "v", "e", "r", " ", "e", "r", "r", "o", "r">>)
SerializeFailed ==
  Str(<<"F", "a", "i", "l", "e", "d", " ", "t", "o", " ", "s", "e", "r", "i", "a", "l", "i", "z", "e", " ", "J", "S", "O", "N", " ", "r", "e", "s", "p", "o", "n", "s", "e">>)
NoneMarker == <<"(", "n", "o", "n", "e", ")">>

\* x || y
OrElse(v, w) == IF Truthy(v) THEN v ELSE w

Init ==
  /\ method \in Methods
  /\ apiKey \in ApiKeys
  /\ reqBody \in ReqBodies
  /\ pc = "method"
  /\ log = <<>>
  /\ body = EmptyObj
  /\ scenario = <<>>
  /\ pdfUrl = EmptyUrl
  /\ pdf = NoPdf
  /\ kb = <<>>
  /\ user = [scenario |-> <<>>, excerpt |-> <<>>]
  /\ r = NoReply
  /\ pending = NoCall
  /\ responses = <<>>
  /\ escaped = FALSE

\* return sendJson(res, code, payload): the handler's last statement
Send(code, payload) ==
  /\ pending' = Call(code, payload)
  /\ pc' = "send"
  /\ escaped' = escaped

\* No catch: the exception leaves the handler
CatchNothing(msg) == [caught |-> FALSE, call |-> NoCall]

\* catch (e) at the top level of the handler
Catch(msg) == [caught |-> TRUE, call |-> Call(500, ErrorBody(OrElse(msg, ServerError)))]

\* An exception with message msg is thrown inside the handler's try block.
Throw(msg) ==
  IF Catch(msg).caught
  THEN /\ pending' = Catch(msg).call
       /\ pc' = "send"
       /\ escaped' = escaped
  ELSE /\ pending' = pending
       /\ pc' = "done"
       /\ escaped' = TRUE

\* The statement after this one: nothing sent, nothing thrown.
Goto(next) ==
  /\ pc' = next
  /\ pending' = pending
  /\ escaped' = escaped

\* The method tested after the credential
CheckMethodLate ==
  /\ pc = "method"
  /\ log' = Append(log, "env")
  /\ IF ~Truthy(apiKey) THEN Send(500, ErrorBody(MissingKey))
     ELSE IF method # "POST" THEN Send(405, ErrorBody(UsePost))
     ELSE Goto("readJson")
  /\ UNCHANGED <<method, apiKey, reqBody, body, scenario, pdfUrl, pdf, kb, user, r, responses>>

CheckMethod ==
  /\ pc = "method"
  /\ IF method # "POST" THEN Send(405, ErrorBody(UsePost)) ELSE Goto("apiKey")
  /\ UNCHANGED <<method, apiKey, reqBody, log, body, scenario, pdfUrl, pdf, kb, user, r, responses>>

\* The credential fetched but not tested here
CheckApiKeyLate ==
  /\ pc = "apiKey"
  /\ log' = Append(log, "env")
  /\ Goto("readJson")
  /\ UNCHANGED <<method, apiKey, reqBody, body, scenario, pdfUrl, pdf, kb, user, r, responses>>

CheckApiKey ==
  /\ pc = "apiKey"
  /\ log' = Append(log, "env")
  /\ IF ~Truthy(apiKey) THEN Send(500, ErrorBody(MissingKey)) ELSE Goto("readJson")
  /\ UNCHANGED <<method, apiKey, reqBody, body, scenario, pdfUrl, pdf, kb, user, r, responses>>

\* readJson(req): req.body when the platform parsed it, else the stream's text
\* parsed, {} when it is empty or does not parse.
readJson(req) ==
  CASE req.kind = "parsed" -> [threw |-> FALSE, val |-> req.val]
    [] req.kind = "raw" -> [threw |-> FALSE, val |-> req.val]
    [] req.kind = "throws" -> [threw |-> TRUE, val |-> EmptyObj]
    [] OTHER -> [threw |-> FALSE, val |-> EmptyObj]

ReadBody ==
  /\ pc = "readJson"
  /\ log' = Append(log, "body")
  /\ IF readJson(reqBody).threw
     THEN /\ \E msg \in ThrownMessages : Throw(msg)
          /\ body' = body
     ELSE /\ Goto("validate")
          /\ body' = readJson(reqBody).val
  /\ UNCHANGED <<method, apiKey, reqBody, scenario, pdfUrl, pdf, kb, user, r, responses>>

\* body?.scenario, body?.pdfUrl
ScenarioOf(b) == IF b.t = "obj" THEN b.scenario ELSE Undef
PdfUrlOf(b) == IF b.t = "obj" THEN b.pdfUrl ELSE NoUrl

\* (body?.scenario || "").toString()
ScenarioText(b) == IF Truthy(ScenarioOf(b)) THEN toStringOf(ScenarioOf(b)) ELSE <<>>
\* body?.pdfUrl ? body.pdfUrl.toString() : ""
RawPdfUrl(b) == IF PdfUrlOf(b).t = "str" THEN PdfUrlOf(b).url ELSE EmptyUrl
\* The length tested without trim()
TooShortUntrimmed(sc) == sc = <<>> \/ Len(sc) < 3

\* !scenario || scenario.trim().length < 3
TooShort(sc) == sc = <<>> \/ Len(Trim(sc)) < 3

Validate ==
  /\ pc = "validate"
  /\ scenario' = ScenarioText(body)
  /\ IF RawPdfUrl(body).k # "empty"
     THEN /\ pdfUrl' = toDirectPdfUrl(RawPdfUrl(body))
          /\ log' = Append(log, "normalize")
     ELSE /\ pdfUrl' = EmptyUrl
          /\ log' = log
  /\ IF TooShort(scenario') THEN Send(400, ErrorBody(BadScenario)) ELSE Goto("fetchPdf")
  /\ UNCHANGED <<method, apiKey, reqBody, body, pdf, kb, user, r, responses>>

\* fetchPdfText whose catch returns the error's text
fetchPdfTextLeaks(outcome) ==
  IF outcome.k = "ok" THEN NormalizeText(outcome.text) ELSE <<"f", "a", "i", "l", "e", "d">>

\* fetchPdfText's result for what the fetch and the parser gave: every failure
\* is caught and gives "".
fetchPdfText(outcome) == IF outcome.k = "ok" THEN NormalizeText(outcome.text) ELSE <<>>

\* FetchPdf that fetches again when the fetch failed
FetchPdfRetries ==
  /\ pc = "fetchPdf"
  /\ IF pdfUrl.k = "empty"
     THEN /\ pdf' = NoPdf
          /\ kb' = <<>>
          /\ log' = log
          /\ Goto("prompt")
     ELSE \E o \in PdfOutcomes(pdfUrl) :
            /\ pdf' = o
            /\ kb' = fetchPdfText(o)
            /\ log' = Append(log, "fetchPdf")
            /\ IF o.k = "ok" THEN Goto("prompt") ELSE Goto("fetchPdf")
  /\ UNCHANGED <<method, apiKey, reqBody, body, scenario, pdfUrl, user, r, responses>>

FetchPdf ==
  /\ pc = "fetchPdf"
  /\ IF pdfUrl.k = "empty"
     THEN /\ pdf' = NoPdf
          /\ kb' = <<>>
          /\ log' = log
     ELSE \E o \in PdfOutcomes(pdfUrl) :
            /\ pdf' = o
            /\ kb' = fetchPdfText(o)
            /\ log' = Append(log, "fetchPdf")
  /\ Goto("prompt")
  /\ UNCHANGED <<method, apiKey, reqBody, body, scenario, pdfUrl, user, r, responses>>

\* The user prompt: the scenario, and the excerpt or the "(none)" marker.
UserPrompt(sc, text) == [scenario |-> sc, excerpt |-> IF text # <<>> THEN text ELSE NoneMarker]

BuildPrompt ==
  /\ pc = "prompt"
  /\ user' = UserPrompt(scenario, kb)
  /\ Goto("generate")
  /\ UNCHANGED <<method, apiKey, reqBody, log, body, scenario, pdfUrl, pdf, kb, r, responses>>

CallGeneration ==
  /\ pc = "generate"
  /\ log' = Append(log, "generate")
  /\ \/ /\ \E msg \in ThrownMessages : Throw(msg)
        /\ r' = r
     \/ /\ r' \in Replies
        /\ Goto("json")
  /\ UNCHANGED <<method, apiKey, reqBody, body, scenario, pdfUrl, pdf, kb, user, responses>>

\* Response.json() and Response.text() of the Fetch API: the body is a stream
\* that is read once; a second read is rejected ("body used already").
ResponseJson(resp) ==
  [resp |-> [resp EXCEPT !.bodyUsed = TRUE], threw |-> resp.bodyUsed \/ ~resp.isJson,
   data |-> resp.data]
ResponseText(resp) ==
  [resp |-> [resp EXCEPT !.bodyUsed = TRUE], threw |-> resp.bodyUsed, text |-> resp.raw]

\* await r.text().catch(() => "")
TextFallback(resp) == IF ResponseText(resp).threw THEN <<>> ELSE ResponseText(resp).text

AwaitJson ==
  /\ pc = "json"
  /\ r' = ResponseJson(r).resp
  /\ IF ResponseJson(r).threw
     THEN Send(502, SnippetBody(NonJson, Str(Slice(TextFallback(r'), SnippetCap))))
     ELSE Goto("finish")
  /\ UNCHANGED <<method, apiKey, reqBody, log, body, scenario, pdfUrl, pdf, kb, user, responses>>

\* data?.error?.message, data?.choices?.[0]?.message?.content
ErrorMessageOf(data) == IF data.t = "obj" THEN data.errMsg ELSE Undef
ContentOf(data) == IF data.t = "obj" THEN data.content ELSE NoContent

\* content?.levels, content?.rationales, content?.summary
LevelsOf(m) == IF m.t = "obj" THEN m.levels ELSE NoLevels
RationalesOf(m) == IF m.t = "obj" THEN m.rationales ELSE Undef
SummaryOf(m) == IF m.t = "obj" THEN m.summary ELSE Undef

\* rawLevels[k] for rawLevels = content?.levels || {}
RawLevel(lv, k) ==
  IF Truthy(lv) /\ lv.t = "obj" /\ k \in DOMAIN lv.map THEN lv.map[k] ELSE Undef

\* const levels = {}; for (const k of traits) levels[k] = clamp10(rawLevels[k]);
FinalLevels(rawLevels) == [k \in TraitKeys |-> clamp10(RawLevel(rawLevels, k))]

\* The payload of the 200 response for the model's output m.
Result(m) ==
  ResultBody(FinalLevels(LevelsOf(m)), OrElse(RationalesOf(m), Obj), OrElse(SummaryOf(m), Str(<<>>)))

\* Finish that answers every rejected generation call with 500
FinishFixedStatus ==
  /\ pc = "finish"
  /\ IF ~IsOk(r.status)
     THEN Send(500, ErrorBody(OrElse(ErrorMessageOf(r.data), ApiError)))
     ELSE IF ContentOf(r.data).k = "text"
     THEN Send(500, SnippetBody(InvalidModelJson, Str(Slice(ContentOf(r.data).chars, SnippetCap))))
     ELSE Send(200, Result(ContentOf(r.data).val))
  /\ UNCHANGED <<method, apiKey, reqBody, log, body, scenario, pdfUrl, pdf, kb, user, r, responses>>

\* Finish that takes a content it cannot parse for an empty object
FinishLenient ==
  /\ pc = "finish"
  /\ IF ~IsOk(r.status)
     THEN Send(r.status, ErrorBody(OrElse(ErrorMessageOf(r.data), ApiError)))
     ELSE Send(200, Result(ContentOf(r.data).val))
  /\ UNCHANGED <<method, apiKey, reqBody, log, body, scenario, pdfUrl, pdf, kb, user, r, responses>>

\* From the parsed reply to the handler's last sendJson.
Finish ==
  /\ pc = "finish"
  /\ IF ~IsOk(r.status)
     THEN Send(r.status, ErrorBody(OrElse(ErrorMessageOf(r.data), ApiError)))
     ELSE IF ContentOf(r.data).k = "text"
     THEN Send(500, SnippetBody(InvalidModelJson, Str(Slice(ContentOf(r.data).chars, SnippetCap))))
     ELSE Send(200, Result(ContentOf(r.data).val))
  /\ UNCHANGED <<method, apiKey, reqBody, log, body, scenario, pdfUrl, pdf, kb, user, r, responses>>

\* sendJson: res.status(code).json(payload) goes through.
Respond ==
  /\ pc = "send"
  /\ responses' = Append(responses, [status |-> pending.code, body |-> pending.body, via |-> "json"])
  /\ log' = Append(log, "respond")
  /\ pc' = "done"
  /\ UNCHANGED <<method, apiKey, reqBody, body, scenario, pdfUrl, pdf, kb, user, r, pending, escaped>>

\* sendJson: res.status(code).json(payload) throws, and the fallback body is
\* written with res.end.
RespondFallback ==
  /\ pc = "send"
  /\ responses' = Append(responses, [status |-> 500, body |-> ErrorBody(SerializeFailed), via |-> "end"])
  /\ log' = Append(log, "respond")
  /\ pc' = "done"
  /\ UNCHANGED <<method, apiKey, reqBody, body, scenario, pdfUrl, pdf, kb, user, r, pending, escaped>>

Next ==
  \/ CheckMethod
  \/ CheckApiKey
  \/ ReadBody
  \/ Validate
  \/ FetchPdf
  \/ BuildPrompt
  \/ CallGeneration
  \/ AwaitJson
  \/ Finish
  \/ Respond

\* The response object does what its contract says.
Spec == Init /\ [][Next]_vars

\* The first attempt to write the response may throw.
NextFault == Next \/ RespondFallback

Done == pc = "done"

\* Every call the handler awaits returns or throws, and the handler is then
\* resumed: a step that can be taken is taken.
Fairness == WF_vars(NextFault)
FairSpec == Init /\ [][NextFault]_vars /\ Fairness

(***************************************************************************)
(* toDirectPdfUrl on its own: the function applied to a URL string, and    *)
(* applied again to its result.                                            *)
(***************************************************************************)
UrlHosts ==
  {<<"example", ".", "com">>,
   DriveHost,
   <<"www", ".", "dropbox", ".", "com">>,
   <<"my", "dropbox", ".", "com">>,
   OneDriveShort,
   OneDriveLive,
   <<"drive", ".", "google", ".", "com", ".", "dropbox", ".", "com">>}
UrlPaths ==
  {<<>>, <<"file", "d", "ABC123", "view">>, <<"s", "x">>, <<"d", "", "x">>}
UrlQueries ==
  {<<>>,
   <<(<<"usp", "sharing">>)>>,
   <<(<<"dl", "0">>)>>,
   <<(<<"dl", "0">>), (<<"a", "b">>), (<<"dl", "2">>)>>,
   <<(<<"download", "0">>)>>}
UrlInputs ==
  {EmptyUrl, FalsyUrl, BadUrl}
    \cup {Url(h, p, q) : h \in UrlHosts, p \in UrlPaths, q \in UrlQueries}
    \cup {Respelled(Url(h, p, q)) : h \in UrlHosts, p \in UrlPaths, q \in UrlQueries}

\* The argument as a body would carry it.
UrlArg(u) == [t |-> IF u.k = "falsy" THEN "null" ELSE "str", url |-> u]

UrlInit ==
  /\ method = "POST"
  /\ apiKey = Str(<<"s", "k">>)
  /\ reqBody \in {[kind |-> "parsed", val |-> BodyObj(Undef, UrlArg(u))] : u \in UrlInputs}
  /\ pc = "url"
  /\ log = <<>>
  /\ body = EmptyObj
  /\ scenario = <<>>
  /\ pdfUrl = EmptyUrl
  /\ pdf = NoPdf
  /\ kb = <<>>
  /\ user = [scenario |-> <<>>, excerpt |-> <<>>]
  /\ r = NoReply
  /\ pending = NoCall
  /\ responses = <<>>
  /\ escaped = FALSE

\* toDirectPdfUrl(url)
Normalize ==
  /\ pc = "url"
  /\ pdfUrl' = toDirectPdfUrl(reqBody.val.pdfUrl.url)
  /\ pc' = "url1"
  /\ UNCHANGED <<method, apiKey, reqBody, log, body, scenario, pdf, kb, user, r, pending,
                 responses, escaped>>

\* toDirectPdfUrl(toDirectPdfUrl(url))
Renormalize ==
  /\ pc = "url1"
  /\ pdfUrl' = toDirectPdfUrl(pdfUrl)
  /\ pc' = "url2"
  /\ UNCHANGED <<method, apiKey, reqBody, log, body, scenario, pdf, kb, user, r, pending,
                 responses, escaped>>

UrlNext == Normalize \/ Renormalize
UrlSpec == UrlInit /\ [][UrlNext]_vars

(***************************************************************************)
(* fetchPdfText on its own: the extractor applied to the text the parser   *)
(* found in a document that was fetched.                                   *)
(***************************************************************************)
\* Length of the short texts the parser returns.
MaxText == 5
TextChars == {"a", " ", "\n"}
\* A text longer than the extractor keeps.
OverlongText == Text(KbCap + 1)
TextInputs ==
  UNION {[1..n -> TextChars] : n \in 0..MaxText} \cup {OverlongText}

TextInit ==
  /\ method = "POST"
  /\ apiKey = Str(<<"s", "k">>)
  /\ reqBody = [kind |-> "parsed", val |-> BodyObj(Undef, UrlArg(DriveShare))]
  /\ pc = "text"
  /\ log = <<>>
  /\ body = EmptyObj
  /\ scenario = <<>>
  /\ pdfUrl = toDirectPdfUrl(DriveShare)
  /\ pdf \in {[k |-> "ok", text |-> t] : t \in TextInputs}
  /\ kb = <<>>
  /\ user = [scenario |-> <<>>, excerpt |-> <<>>]
  /\ r = NoReply
  /\ pending = NoCall
  /\ responses = <<>>
  /\ escaped = FALSE

\* fetchPdfText(url)
Extract ==
  /\ pc = "text"
  /\ kb' = fetchPdfText(pdf)
  /\ pc' = "text1"
  /\ UNCHANGED <<method, apiKey, reqBody, log, body, scenario, pdfUrl, pdf, user, r, pending,
                 responses, escaped>>

TextNext == Extract
TextSpec == TextInit /\ [][TextNext]_vars

(***************************************************************************)
(* Properties                                                              *)
(***************************************************************************)
Has(event) == \E i \in 1..Len(log) : log[i] = event
Sent(i, status) == i \in 1..Len(responses) /\ responses[i].status = status

\* What the model's `levels` holds for key k (undefined when it holds nothing).
RawOf(k) == RawLevel(LevelsOf(ContentOf(r.data).val), k)

ValidLevels(levels) ==
  /\ DOMAIN levels = TraitKeys
  /\ \A k \in TraitKeys : levels[k] \in 0..10

\* C1: every 200 response carries levels over exactly the 11 trait keys, each
\* an integer in 0..10, whatever the model's levels field holds.
C1_LevelsTotalAndBounded ==
  \A i \in 1..Len(responses) :
    responses[i].status = 200 =>
      /\ "levels" \in responses[i].body.keys
      /\ Cardinality(DOMAIN responses[i].body.levels) = 11
      /\ ValidLevels(responses[i].body.levels)

\* A 200 response to a model output with an unknown key, an out-of-range level
\* and missing keys.
C1_Witness ==
  /\ Sent(1, 200)
  /\ RawOf("unknownKey") = Num(9, 1)
  /\ RawOf("ruthlessness") = Num(117, 10)
  /\ RawOf("focus") = Undef

IsLetter(c) == ~IsDigit(c) /\ c \notin {".", "-", "+", " ", "\n", "\t", ","}
HasLetter(s) == \E i \in 1..Len(s) : IsLetter(s[i])
Blank(s) == \A i \in 1..Len(s) : s[i] \in {" ", "\n", "\t"}

\* C2 as stated: a raw level that is missing, null, a boolean, an empty
\* string, a non-numeric string, an array or an object gives level 5.
C2_MissingOrNonNumericGivesFive ==
  Sent(1, 200) =>
    \A k \in TraitKeys :
      (\/ RawOf(k).t \in {"undef", "null", "bool", "array", "obj"}
       \/ RawOf(k).t = "str" /\ (RawOf(k).s = <<>> \/ HasLetter(RawOf(k).s)))
        => responses[1].body.levels[k] = 5

\* C2, amended: level 5 for a missing key, a non-numeric string, a plain
\* object and an array of two or more elements; null, false, a blank string
\* and the empty array coerce to 0 and give 0; true gives 1.
C2_DefaultOnlyWhenNotFinite ==
  Sent(1, 200) =>
    \A k \in TraitKeys :
      /\ (\/ RawOf(k).t \in {"undef", "obj"}
          \/ RawOf(k).t = "str" /\ HasLetter(RawOf(k).s)
          \/ RawOf(k).t = "array" /\ Len(RawOf(k).s) >= 2)
           => responses[1].body.levels[k] = 5
      /\ (\/ RawOf(k).t = "null"
          \/ RawOf(k) = Bool(FALSE)
          \/ RawOf(k).t = "str" /\ Blank(RawOf(k).s)
          \/ RawOf(k).t = "array" /\ RawOf(k).s = <<>>)
           => responses[1].body.levels[k] = 0
      /\ RawOf(k) = Bool(TRUE) => responses[1].body.levels[k] = 1

\* A 200 response where one key was null and another was missing.
C2_Witness ==
  /\ Sent(1, 200)
  /\ RawOf("ruthlessness") = Null
  /\ responses[1].body.levels["ruthlessness"] = 0
  /\ RawOf("focus") = Undef
  /\ responses[1].body.levels["focus"] = 5

\* q is the integer nearest to n/d, the upper one of two.
Nearest(q, n, d) == 2 * q * d - 2 * n <= d /\ 2 * n - 2 * q * d < d

\* C3: a raw level that is a finite number, or a string that coerces to one,
\* gives min(10, max(0, nearest integer)); 11.7 gives 10, a negative number
\* 0, "3" gives 3; 5 is the default only when the coercion is not finite.
C3_RoundThenClamp ==
  Sent(1, 200) =>
    \A k \in TraitKeys :
      LET raw == RawOf(k)
          level == responses[1].body.levels[k]
          x == IF raw.t = "num" THEN Fin(raw.n, raw.d) ELSE StringToNumber(raw.s)
      IN  /\ (raw.t \in {"num", "str"} /\ x.k = "fin") =>
                \E q \in -20..20 : Nearest(q, x.n, x.d) /\ level = Min(10, Max(0, q))
          /\ (raw.t \in {"num", "str"} /\ x.k # "fin") => level = 5
          /\ raw = Num(117, 10) => level = 10
          /\ (raw.t = "num" /\ raw.n < 0) => level = 0
          /\ raw = Str(<<"3">>) => level = 3
          /\ raw = Num(25, 10) => level = 3

\* A 200 response where a key was a padded numeric string, and a tie: " 7.5 ".
C3_Witness ==
  /\ Sent(1, 200)
  /\ RawOf("ruthlessness") = Str(<<" ", "7", ".", "5", " ">>)
  /\ responses[1].body.levels["ruthlessness"] = 8

OnlyResponse(status, payload) ==
  responses = <<[status |-> status, body |-> payload, via |-> "json"]>>

\* C4: a request that is not a POST gets 405 and a JSON error body, and nothing
\* else is done for it: no credential check, no body read, no normalization,
\* no document fetch, no generation call.
C4_MethodRejectedFirst ==
  method # "POST" =>
    /\ \A i \in 1..Len(log) : log[i] = "respond"
    /\ Done => OnlyResponse(405, ErrorBody(UsePost))
    /\ Done => responses[1].body.keys = {"error"} /\ responses[1].body.error.t = "str"

\* A GET answered although the credential is missing and the body cannot be read.
C4_Witness ==
  /\ Done
  /\ method = "GET"
  /\ Sent(1, 405)
  /\ ~Truthy(apiKey)
  /\ reqBody.kind = "throws"

\* The length of s without its leading and trailing blanks.
TrimmedLength(s) ==
  LET solid == {i \in 1..Len(s) : s[i] \notin {" ", "\n", "\t"}}
  IN  IF solid = {} THEN 0
      ELSE (CHOOSE i \in solid : \A j \in solid : j <= i)
             - (CHOOSE i \in solid : \A j \in solid : i <= j) + 1

\* The request carries no scenario, or one that is a string.
PlainScenario ==
  \/ reqBody.kind \in {"empty", "malformed"}
  \/ reqBody.kind \in {"parsed", "raw"}
       /\ (reqBody.val.t = "obj" => reqBody.val.scenario.t \in {"undef", "null", "str"})

\* The request's scenario is a string of 3 characters or more, once trimmed.
LongEnough ==
  /\ reqBody.kind \in {"parsed", "raw"}
  /\ reqBody.val.t = "obj"
  /\ reqBody.val.scenario.t = "str"
  /\ TrimmedLength(reqBody.val.scenario.s) >= 3

\* C5: a POST with the credential set and a body that is absent, malformed,
\* without scenario or with a scenario shorter than 3 once trimmed gets 400
\* and no document fetch or generation call; a scenario of 3 or more passes
\* and the pipeline goes on to the generation call.
C5_ScenarioValidated ==
  (method = "POST" /\ Truthy(apiKey) /\ PlainScenario) =>
    IF LongEnough
    THEN Done => Has("generate")
    ELSE /\ ~Has("fetchPdf") /\ ~Has("generate")
         /\ Done => OnlyResponse(400, ErrorBody(BadScenario))

\* A padded two-character scenario with a document URL, answered 400.
C5_Witness ==
  /\ Done
  /\ Sent(1, 400)
  /\ reqBody.kind = "parsed"
  /\ reqBody.val.scenario = Str(<<" ", "o", "k", " ">>)
  /\ reqBody.val.pdfUrl = UrlStr(DriveShare)
  /\ ~Has("fetchPdf")

\* C6: a POST without the credential gets the 500 configuration error before
\* the body is read and before any outbound call, whatever the body holds.
C6_MissingCredentialFirst ==
  (method = "POST" /\ ~Truthy(apiKey)) =>
    /\ ~Has("body") /\ ~Has("normalize") /\ ~Has("fetchPdf") /\ ~Has("generate")
    /\ Done => OnlyResponse(500, ErrorBody(MissingKey))

\* A POST without credential and without scenario, answered 500.
C6_Witness ==
  /\ Done
  /\ method = "POST"
  /\ apiKey = Undef
  /\ Sent(1, 500)
  /\ reqBody.kind = "parsed"
  /\ reqBody.val.scenario = Undef
  /\ reqBody.val.pdfUrl = UrlStr(DriveShare)

DocumentFailed == pdf.k \in {"neterr", "status", "badpdf"}

\* The generation reply is well formed: a success status, a JSON body, and a
\* content that is no unparsable string.
WellFormedReply == IsOk(r.status) /\ r.isJson /\ ContentOf(r.data).k # "text"

\* C7: when the document fetch or parse fails, the grounding text is empty,
\* the prompt carries "(none)" exactly as for a request without pdfUrl, the
\* generation call is issued, and a well-formed reply gives 200 with valid
\* levels.
C7_DocumentFailureAbsorbed ==
  DocumentFailed =>
    /\ kb = <<>>
    /\ (pc = "generate" \/ Has("generate")) =>
         user = [scenario |-> scenario, excerpt |-> NoneMarker]
    /\ Done => Has("generate")
    /\ (Done /\ WellFormedReply) =>
         /\ Sent(1, 200)
         /\ Len(responses) = 1
         /\ ValidLevels(responses[1].body.levels)

\* A document host that answers with an error status, and a 200 all the same.
C7_Witness ==
  /\ Done
  /\ pdf.k = "status"
  /\ Has("fetchPdf")
  /\ Sent(1, 200)

JsonObject(payload) ==
  \/ payload.keys = {"error"}
  \/ payload.keys = {"error", "snippet"}
  \/ payload.keys = {"levels", "rationales", "summary"}

\* C8: whatever the collaborators do, and also when the first attempt to
\* write the response throws, the handler ends, with exactly one response
\* sent, a JSON object, and no exception leaving it.
C8_AlwaysOneJsonResponse ==
  /\ <>Done
  /\ [](Done => /\ Len(responses) = 1
                /\ JsonObject(responses[1].body)
                /\ ~escaped)
  /\ [](~Done => responses = <<>>)

\* The body could not be read and the first write of the 500 failed too.
C8_Witness ==
  /\ Done
  /\ reqBody.kind = "throws"
  /\ Len(responses) = 1
  /\ responses[1].via = "end"

\* C9: every response that is not a 200 has a body {error, snippet?} whose
\* error is a string and whose snippet, if any, is a string of at most 200
\* characters.
C9_ErrorBodyShape ==
  \A i \in 1..Len(responses) :
    responses[i].status # 200 =>
      /\ "error" \in responses[i].body.keys
      /\ responses[i].body.keys \subseteq {"error", "snippet"}
      /\ responses[i].body.error.t = "str"
      /\ "snippet" \in responses[i].body.keys =>
           /\ responses[i].body.snippet.t = "str"
           /\ Len(responses[i].body.snippet.s) <= 200

\* C10: a generation reply whose body is no JSON gets 502 and, as snippet, the
\* first min(200, length) characters of that body.
C10_SnippetOfRawBody ==
  (Done /\ Has("generate") /\ r # NoReply /\ ~r.isJson) =>
    /\ Sent(1, 502)
    /\ responses[1].body.snippet = Str(SubSeq(r.raw, 1, Min(200, Len(r.raw))))

\* The generation call completed, rejected, with a JSON body.
Rejected == Done /\ Has("generate") /\ r # NoReply /\ r.isJson /\ ~IsOk(r.status)

\* C11 as stated: a rejected generation call with a JSON body is answered with
\* the upstream status and, as error, the upstream error.message whenever the
\* body has one, the default message when it has none; no levels.
C11_UpstreamErrorVerbatim ==
  Rejected =>
    /\ OnlyResponse(r.status,
                    ErrorBody(IF ErrorMessageOf(r.data).t \in {"undef", "null"}
                              THEN ApiError ELSE ErrorMessageOf(r.data)))
    /\ "levels" \notin responses[1].body.keys

\* C11, amended: the status is the upstream status; the error is the upstream
\* error.message when that is a truthy value (a non-empty string), and the
\* default message when it is absent, null or the empty string; no levels.
C11_UpstreamErrorOrDefault ==
  Rejected =>
    /\ Len(responses) = 1
    /\ responses[1].status = r.status
    /\ responses[1].body.keys = {"error"}
    /\ responses[1].body.levels = NoLevelsOut
    /\ responses[1].body.error =
         IF Truthy(ErrorMessageOf(r.data)) THEN ErrorMessageOf(r.data) ELSE ApiError
    /\ ErrorMessageOf(r.data) = Str(<<"r", "a", "t", "e">>) =>
         responses[1].body.error = Str(<<"r", "a", "t", "e">>)
    /\ ErrorMessageOf(r.data) \in {Undef, Str(<<>>)} => responses[1].body.error = ApiError

\* An upstream 400 with its own message, answered 400 with that message.
C11_Witness ==
  /\ Rejected
  /\ r.status = 400
  /\ ErrorMessageOf(r.data) = Str(<<"r", "a", "t", "e">>)
  /\ Sent(1, 400)

\* The generation call succeeded with a content of kind k.
Succeeded(k) ==
  Done /\ Has("generate") /\ r # NoReply /\ r.isJson /\ IsOk(r.status) /\ ContentOf(r.data).k = k

\* C12: a content string that does not parse as JSON gets 500, the
\* model-output error and the first min(200, length) characters of the content
\* as snippet, never a 200; a content that is structured data already gets 200.
C12_UnparsableContentRejected ==
  /\ Succeeded("text") =>
       /\ OnlyResponse(500,
                       SnippetBody(InvalidModelJson,
                                   Str(SubSeq(ContentOf(r.data).chars, 1,
                                              Min(200, Len(ContentOf(r.data).chars))))))
       /\ ~Sent(1, 200)
  /\ Succeeded("data") =>
       /\ Len(responses) = 1
       /\ Sent(1, 200)
       /\ responses[1].body = Result(ContentOf(r.data).val)

\* A content of 201 characters that is no JSON, answered 500 with 200 of them.
C12_Witness ==
  /\ Succeeded("text")
  /\ Len(ContentOf(r.data).chars) = LongLen
  /\ Sent(1, 500)
  /\ Len(responses[1].body.snippet.s) = 200

\* The argument of toDirectPdfUrl, and whether the function has returned.
UrlInput == reqBody.val.pdfUrl.url
Normalized == pc \in {"url1", "url2"}
OnHost(name) == UrlInput.k = "url" /\ Includes(UrlInput.host, name)
OnOneDrive == OnHost(OneDriveShort) \/ OnHost(OneDriveLive)

\* The pairs of query whose key is not key, in their order.
Others(query, key) == SelectSeq(query, LAMBDA pair : pair[1] # key)
Values(query, key) == {query[i][2] : i \in {j \in 1..Len(query) : query[j][1] = key}}
Occurrences(query, key) == Cardinality({j \in 1..Len(query) : query[j][1] = key})

\* to is the URL from with parameter key set to value, everything else alike.
SameWithParam(from, to, key, value) ==
  /\ to.k = "url"
  /\ to.host = from.host
  /\ to.path = from.path
  /\ Occurrences(to.query, key) = 1
  /\ Values(to.query, key) = {value}
  /\ Others(to.query, key) = Others(from.query, key)

\* C13: on a host that contains drive.google.com, a path with /d/<id> gives
\* https://drive.google.com/uc?export=download&id=<id>, and any other path
\* gives the input untouched: no later rule is applied.
C13_DriveRuleWins ==
  (pc = "url1" /\ OnHost(DriveHost)) =>
    IF \E i \in 1..(Len(UrlInput.path) - 1) : UrlInput.path[i] = "d" /\ UrlInput.path[i + 1] # ""
    THEN /\ pdfUrl.host = DriveHost
         /\ pdfUrl.path = <<"uc">>
         /\ Len(pdfUrl.query) = 2
         /\ pdfUrl.query[1] = <<"export", "download">>
         /\ pdfUrl.query[2][1] = "id"
         /\ \E i \in 1..(Len(UrlInput.path) - 1) :
              UrlInput.path[i] = "d" /\ UrlInput.path[i + 1] = pdfUrl.query[2][2]
    ELSE pdfUrl = UrlInput

\* C14 as stated: on a host that contains dropbox.com the result is the same
\* URL with dl = 1, and normalizing twice gives what normalizing once gives.
C14_DropboxAlwaysDl ==
  /\ (pc = "url1" /\ OnHost(DropboxHost)) => SameWithParam(UrlInput, pdfUrl, "dl", "1")
  /\ pc = "url2" => pdfUrl = toDirectPdfUrl(UrlInput)

\* C14, amended: on a host that contains dropbox.com and not drive.google.com
\* the result is the same URL with dl = 1, once; on a OneDrive host (and no
\* Drive or Dropbox host) an existing download parameter is kept and
\* download=1 is added when there is none; normalizing twice gives what
\* normalizing once gives, for every input.
C14_DropboxDlAndIdempotent ==
  /\ (pc = "url1" /\ OnHost(DropboxHost) /\ ~OnHost(DriveHost)) =>
       /\ SameWithParam(UrlInput, pdfUrl, "dl", "1")
       /\ pdfUrl.canon
  /\ (pc = "url1" /\ OnOneDrive /\ ~OnHost(DropboxHost) /\ ~OnHost(DriveHost)) =>
       IF Occurrences(UrlInput.query, "download") > 0
       THEN pdfUrl.host = UrlInput.host /\ pdfUrl.path = UrlInput.path /\ pdfUrl.query = UrlInput.query
       ELSE SameWithParam(UrlInput, pdfUrl, "download", "1")
  /\ pc = "url2" => pdfUrl = toDirectPdfUrl(UrlInput)

\* A Dropbox link with dl=0 and dl=2, normalized twice.
C14_Witness ==
  /\ pc = "url2"
  /\ UrlInput.host = <<"www", ".", "dropbox", ".", "com">>
  /\ Occurrences(UrlInput.query, "dl") = 2
  /\ Occurrences(pdfUrl.query, "dl") = 1

\* C15: the normalizer returns for every input: the empty string for an empty
\* or falsy one, and the input verbatim for a string that is no URL and for a
\* URL whose host matches none of the Drive, Dropbox and OneDrive rules.
C15_NeverThrowsVerbatim ==
  Normalized =>
    /\ pdfUrl.k # "threw"
    /\ (pc = "url1" /\ UrlInput.k \in {"empty", "falsy"}) => pdfUrl = EmptyUrl
    /\ (pc = "url1" /\ UrlInput.k = "bad") => pdfUrl = UrlInput
    /\ (pc = "url1" /\ UrlInput.k = "url" /\ ~OnHost(DriveHost) /\ ~OnHost(DropboxHost) /\ ~OnOneDrive)
         => pdfUrl = UrlInput

\* A string that is no URL, returned as it came.
C15_Witness ==
  /\ pc = "url1"
  /\ UrlInput = BadUrl
  /\ pdfUrl = BadUrl

\* What the model's output holds as rationales and as summary.
RationalesIn == RationalesOf(ContentOf(r.data).val)
SummaryIn == SummaryOf(ContentOf(r.data).val)

\* C16: in every 200 response summary is a string and rationales a mapping,
\* the model's value when it supplied one and "" / {} otherwise, whatever the
\* type of what the model supplied.
C16_SummaryStringRationalesMapping ==
  (Done /\ Sent(1, 200)) =>
    /\ responses[1].body.summary.t = "str"
    /\ responses[1].body.rationales.t = "obj"
    /\ SummaryIn.t = "str" => responses[1].body.summary = SummaryIn
    /\ RationalesIn.t = "obj" => responses[1].body.rationales = RationalesIn
    /\ SummaryIn.t = "undef" => responses[1].body.summary = Str(<<>>)
    /\ RationalesIn.t = "undef" => responses[1].body.rationales = Obj

\* s has n newlines in a row at i, and no more.
RunAt(s, i, n) ==
  /\ i + n - 1 <= Len(s)
  /\ \A j \in i..(i + n - 1) : s[j] = "\n"
  /\ i = 1 \/ s[i - 1] # "\n"
  /\ i + n > Len(s) \/ s[i + n] # "\n"
HasRun(s, n) == \E i \in 1..Len(s) : RunAt(s, i, n)
HasBlank(s) == \E i \in 1..Len(s) : s[i] \in {" ", "\t"}

\* C17: the extractor's text has at most 12,000 characters, no white space
\* directly before a newline and no run of 3 or more newlines, and a run of
\* exactly 2 newlines of the document's text is still a run of 2.
C17_TextNormalized ==
  (pc = "text1" /\ pdf.k = "ok") =>
    /\ Len(kb) <= 12000
    /\ \A i \in 1..(Len(kb) - 1) : kb[i] \in {" ", "\t"} => kb[i + 1] # "\n"
    /\ \A n \in 3..Len(kb) : ~HasRun(kb, n)
    /\ (~HasBlank(pdf.text) /\ HasRun(pdf.text, 2)) => HasRun(kb, 2)

\* The stages in the order of the handler's text.
Stages ==
  <<"method", "apiKey", "readJson", "validate", "fetchPdf", "prompt", "generate", "json",
    "finish", "send", "done">>
StageOf(p) == CHOOSE i \in 1..Len(Stages) : Stages[i] = p
Events == <<"env", "body", "normalize", "fetchPdf", "generate", "respond">>
EventRank(e) == CHOOSE i \in 1..Len(Events) : Events[i] = e
Count(event) == Cardinality({i \in 1..Len(log) : log[i] = event})

\* What has been done so far was done in the order of the stages, each thing once.
InOrder ==
  /\ \A i, j \in 1..Len(log) : i < j => EventRank(log[i]) < EventRank(log[j])
  /\ Count("fetchPdf") <= 1
  /\ Count("generate") <= 1
  /\ Has("fetchPdf") => Has("body") /\ ~TooShort(scenario) /\ StageOf(pc) > StageOf("fetchPdf")
  /\ Has("generate") =>
       /\ StageOf(pc) > StageOf("generate")
       /\ kb = IF pdfUrl.k = "empty" THEN <<>> ELSE fetchPdfText(pdf)
       /\ pdfUrl.k # "empty" => Has("fetchPdf")
       /\ user = UserPrompt(scenario, kb)
  /\ Has("respond") => Done /\ log[Len(log)] = "respond" /\ Len(responses) = 1

\* C18: the stages of a request run in order, each at most once: the document
\* fetch only after the validation passed, the generation call only after the
\* extraction returned, and nothing after a response.
C18_StagesInOrder ==
  /\ []InOrder
  /\ [][StageOf(pc') > StageOf(pc)]_vars
  /\ [][~Done]_vars

\* A document fetch that failed and a generation call that was rejected, each
\* made once, and the error response as the last thing done.
C18_Witness ==
  /\ Done
  /\ log = <<"env", "body", "normalize", "fetchPdf", "generate", "respond">>
  /\ pdf.k = "neterr"
  /\ Sent(1, 500)
====
